---- MODULE Spec2Model ----
(***************************************************************************)
(* A model of .github/scripts/check-pom-consistency.py: the consistency    *)
(* check between the plugin/dependency version management of pom.xml and   *)
(* the 'maven-plugins' group of dependabot.yml.                            *)
(*                                                                         *)
(* A character is its code point (the value of ord), a Python str is a     *)
(* sequence of characters, the text of dependabot.yml is the sequence of   *)
(* its lines (text.splitlines()), and Python's None is 0 where a line      *)
(* index is expected (lines are numbered from 1 here, from 0 in the        *)
(* script).  Str(<< "a", ":", "*" >>) is the str 'a:*', Ch("#") the        *)
(* character '#'.                                                          *)
(***************************************************************************)
EXTENDS Integers, Sequences, FiniteSets, TLC

(***************************************************************************)
(* Characters and str methods                                              *)
(***************************************************************************)

Range(s) == { s[i] : i \in 1..Len(s) }

\* The characters of U+0020..U+005F and of U+0061..U+007E as a module writes
\* them, in the order of their code points.
Ascii32 ==
    << " ","!","\"","#","$","%","&","'","(",")","*","+",",","-",".","/","0",
       "1","2","3","4","5","6","7","8","9",":",";","<","=",">","?","@","A",
       "B","C","D","E","F","G","H","I","J","K","L","M","N","O","P","Q","R",
       "S","T","U","V","W","X","Y","Z","[","\\","]","^","_" >>
Ascii97 ==
    << "a","b","c","d","e","f","g","h","i","j","k","l","m","n","o","p","q",
       "r","s","t","u","v","w","x","y","z","{","|","}","~" >>

\* The index of c in s.
IndexIn(s, c) == CHOOSE i \in 1..Len(s) : s[i] = c

\* The code points of the characters the literals of the script and the texts
\* of the model are written with.
CodePoint ==
    [ c \in Range(Ascii32) \cup Range(Ascii97) \cup { "\t", "\n", "\r" } |->
        IF c \in Range(Ascii32) THEN 31 + IndexIn(Ascii32, c)
        ELSE IF c \in Range(Ascii97) THEN 96 + IndexIn(Ascii97, c)
        ELSE IF c = "\t" THEN 9
        ELSE IF c = "\n" THEN 10
        ELSE 13 ]

\* The character written c.
Ch(c) == CodePoint[c]

\* The str written as the sequence s of its characters.
Str(s) == [ i \in 1..Len(s) |-> Ch(s[i]) ]

\* ord(c): a character is its code point.
ord(c) == c

\* The whitespace characters a line of str.splitlines() can hold: U+0009,
\* U+001F, U+0020, U+00A0, U+1680, U+2000..U+200A, U+202F, U+205F, U+3000.
LineSpaces == { 9, 31, 32, 160, 5760 } \cup (8192..8202) \cup { 8239, 8287, 12288 }

\* The whitespace characters str.splitlines() breaks a line at: U+000A..U+000D,
\* U+001C..U+001E, U+0085, U+2028, U+2029.
LineBreaks == (10..13) \cup (28..30) \cup { 133, 8232, 8233 }

\* The characters str.isspace() holds for: those str.strip() and str.lstrip()
\* take off and those \s matches.
WS == LineSpaces \cup LineBreaks

\* The ranges of the code points str.isalnum() holds for (Unicode 14.0.0, the
\* character database of Python 3.11).
AlnumRanges ==
    << <<48,57>>,<<65,90>>,<<97,122>>,<<170,170>>,<<178,179>>,<<181,181>>,
       <<185,186>>,<<188,190>>,<<192,214>>,<<216,246>>,<<248,705>>,
       <<710,721>>,<<736,740>>,<<748,748>>,<<750,750>>,<<880,884>>,
       <<886,887>>,<<890,893>>,<<895,895>>,<<902,902>>,<<904,906>>,
       <<908,908>>,<<910,929>>,<<931,1013>>,<<1015,1153>>,<<1162,1327>>,
       <<1329,1366>>,<<1369,1369>>,<<1376,1416>>,<<1488,1514>>,<<1519,1522>>,
       <<1568,1610>>,<<1632,1641>>,<<1646,1647>>,<<1649,1747>>,<<1749,1749>>,
       <<1765,1766>>,<<1774,1788>>,<<1791,1791>>,<<1808,1808>>,<<1810,1839>>,
       <<1869,1957>>,<<1969,1969>>,<<1984,2026>>,<<2036,2037>>,<<2042,2042>>,
       <<2048,2069>>,<<2074,2074>>,<<2084,2084>>,<<2088,2088>>,<<2112,2136>>,
       <<2144,2154>>,<<2160,2183>>,<<2185,2190>>,<<2208,2249>>,<<2308,2361>>,
       <<2365,2365>>,<<2384,2384>>,<<2392,2401>>,<<2406,2415>>,<<2417,2432>>,
       <<2437,2444>>,<<2447,2448>>,<<2451,2472>>,<<2474,2480>>,<<2482,2482>>,
       <<2486,2489>>,<<2493,2493>>,<<2510,2510>>,<<2524,2525>>,<<2527,2529>>,
       <<2534,2545>>,<<2548,2553>>,<<2556,2556>>,<<2565,2570>>,<<2575,2576>>,
       <<2579,2600>>,<<2602,2608>>,<<2610,2611>>,<<2613,2614>>,<<2616,2617>>,
       <<2649,2652>>,<<2654,2654>>,<<2662,2671>>,<<2674,2676>>,<<2693,2701>>,
       <<2703,2705>>,<<2707,2728>>,<<2730,2736>>,<<2738,2739>>,<<2741,2745>>,
       <<2749,2749>>,<<2768,2768>>,<<2784,2785>>,<<2790,2799>>,<<2809,2809>>,
       <<2821,2828>>,<<2831,2832>>,<<2835,2856>>,<<2858,2864>>,<<2866,2867>>,
       <<2869,2873>>,<<2877,2877>>,<<2908,2909>>,<<2911,2913>>,<<2918,2927>>,
       <<2929,2935>>,<<2947,2947>>,<<2949,2954>>,<<2958,2960>>,<<2962,2965>>,
       <<2969,2970>>,<<2972,2972>>,<<2974,2975>>,<<2979,2980>>,<<2984,2986>>,
       <<2990,3001>>,<<3024,3024>>,<<3046,3058>>,<<3077,3084>>,<<3086,3088>>,
       <<3090,3112>>,<<3114,3129>>,<<3133,3133>>,<<3160,3162>>,<<3165,3165>>,
       <<3168,3169>>,<<3174,3183>>,<<3192,3198>>,<<3200,3200>>,<<3205,3212>>,
       <<3214,3216>>,<<3218,3240>>,<<3242,3251>>,<<3253,3257>>,<<3261,3261>>,
       <<3293,3294>>,<<3296,3297>>,<<3302,3311>>,<<3313,3314>>,<<3332,3340>>,
       <<3342,3344>>,<<3346,3386>>,<<3389,3389>>,<<3406,3406>>,<<3412,3414>>,
       <<3416,3425>>,<<3430,3448>>,<<3450,3455>>,<<3461,3478>>,<<3482,3505>>,
       <<3507,3515>>,<<3517,3517>>,<<3520,3526>>,<<3558,3567>>,<<3585,3632>>,
       <<3634,3635>>,<<3648,3654>>,<<3664,3673>>,<<3713,3714>>,<<3716,3716>>,
       <<3718,3722>>,<<3724,3747>>,<<3749,3749>>,<<3751,3760>>,<<3762,3763>>,
       <<3773,3773>>,<<3776,3780>>,<<3782,3782>>,<<3792,3801>>,<<3804,3807>>,
       <<3840,3840>>,<<3872,3891>>,<<3904,3911>>,<<3913,3948>>,<<3976,3980>>,
       <<4096,4138>>,<<4159,4169>>,<<4176,4181>>,<<4186,4189>>,<<4193,4193>>,
       <<4197,4198>>,<<4206,4208>>,<<4213,4225>>,<<4238,4238>>,<<4240,4249>>,
       <<4256,4293>>,<<4295,4295>>,<<4301,4301>>,<<4304,4346>>,<<4348,4680>>,
       <<4682,4685>>,<<4688,4694>>,<<4696,4696>>,<<4698,4701>>,<<4704,4744>>,
       <<4746,4749>>,<<4752,4784>>,<<4786,4789>>,<<4792,4798>>,<<4800,4800>>,
       <<4802,4805>>,<<4808,4822>>,<<4824,4880>>,<<4882,4885>>,<<4888,4954>>,
       <<4969,4988>>,<<4992,5007>>,<<5024,5109>>,<<5112,5117>>,<<5121,5740>>,
       <<5743,5759>>,<<5761,5786>>,<<5792,5866>>,<<5870,5880>>,<<5888,5905>>,
       <<5919,5937>>,<<5952,5969>>,<<5984,5996>>,<<5998,6000>>,<<6016,6067>>,
       <<6103,6103>>,<<6108,6108>>,<<6112,6121>>,<<6128,6137>>,<<6160,6169>>,
       <<6176,6264>>,<<6272,6276>>,<<6279,6312>>,<<6314,6314>>,<<6320,6389>>,
       <<6400,6430>>,<<6470,6509>>,<<6512,6516>>,<<6528,6571>>,<<6576,6601>>,
       <<6608,6618>>,<<6656,6678>>,<<6688,6740>>,<<6784,6793>>,<<6800,6809>>,
       <<6823,6823>>,<<6917,6963>>,<<6981,6988>>,<<6992,7001>>,<<7043,7072>>,
       <<7086,7141>>,<<7168,7203>>,<<7232,7241>>,<<7245,7293>>,<<7296,7304>>,
       <<7312,7354>>,<<7357,7359>>,<<7401,7404>>,<<7406,7411>>,<<7413,7414>>,
       <<7418,7418>>,<<7424,7615>>,<<7680,7957>>,<<7960,7965>>,<<7968,8005>>,
       <<8008,8013>>,<<8016,8023>>,<<8025,8025>>,<<8027,8027>>,<<8029,8029>>,
       <<8031,8061>>,<<8064,8116>>,<<8118,8124>>,<<8126,8126>>,<<8130,8132>>,
       <<8134,8140>>,<<8144,8147>>,<<8150,8155>>,<<8160,8172>>,<<8178,8180>>,
       <<8182,8188>>,<<8304,8305>>,<<8308,8313>>,<<8319,8329>>,<<8336,8348>>,
       <<8450,8450>>,<<8455,8455>>,<<8458,8467>>,<<8469,8469>>,<<8473,8477>>,
       <<8484,8484>>,<<8486,8486>>,<<8488,8488>>,<<8490,8493>>,<<8495,8505>>,
       <<8508,8511>>,<<8517,8521>>,<<8526,8526>>,<<8528,8585>>,<<9312,9371>>,
       <<9450,9471>>,<<10102,10131>>,<<11264,11492>>,<<11499,11502>>,
       <<11506,11507>>,<<11517,11517>>,<<11520,11557>>,<<11559,11559>>,
       <<11565,11565>>,<<11568,11623>>,<<11631,11631>>,<<11648,11670>>,
       <<11680,11686>>,<<11688,11694>>,<<11696,11702>>,<<11704,11710>>,
       <<11712,11718>>,<<11720,11726>>,<<11728,11734>>,<<11736,11742>>,
       <<11823,11823>>,<<12293,12295>>,<<12321,12329>>,<<12337,12341>>,
       <<12344,12348>>,<<12353,12438>>,<<12445,12447>>,<<12449,12538>>,
       <<12540,12543>>,<<12549,12591>>,<<12593,12686>>,<<12690,12693>>,
       <<12704,12735>>,<<12784,12799>>,<<12832,12841>>,<<12872,12879>>,
       <<12881,12895>>,<<12928,12937>>,<<12977,12991>>,<<13312,19903>>,
       <<19968,42124>>,<<42192,42237>>,<<42240,42508>>,<<42512,42539>>,
       <<42560,42606>>,<<42623,42653>>,<<42656,42735>>,<<42775,42783>>,
       <<42786,42888>>,<<42891,42954>>,<<42960,42961>>,<<42963,42963>>,
       <<42965,42969>>,<<42994,43009>>,<<43011,43013>>,<<43015,43018>>,
       <<43020,43042>>,<<43056,43061>>,<<43072,43123>>,<<43138,43187>>,
       <<43216,43225>>,<<43250,43255>>,<<43259,43259>>,<<43261,43262>>,
       <<43264,43301>>,<<43312,43334>>,<<43360,43388>>,<<43396,43442>>,
       <<43471,43481>>,<<43488,43492>>,<<43494,43518>>,<<43520,43560>>,
       <<43584,43586>>,<<43588,43595>>,<<43600,43609>>,<<43616,43638>>,
       <<43642,43642>>,<<43646,43695>>,<<43697,43697>>,<<43701,43702>>,
       <<43705,43709>>,<<43712,43712>>,<<43714,43714>>,<<43739,43741>>,
       <<43744,43754>>,<<43762,43764>>,<<43777,43782>>,<<43785,43790>>,
       <<43793,43798>>,<<43808,43814>>,<<43816,43822>>,<<43824,43866>>,
       <<43868,43881>>,<<43888,44002>>,<<44016,44025>>,<<44032,55203>>,
       <<55216,55238>>,<<55243,55291>>,<<63744,64109>>,<<64112,64217>>,
       <<64256,64262>>,<<64275,64279>>,<<64285,64285>>,<<64287,64296>>,
       <<64298,64310>>,<<64312,64316>>,<<64318,64318>>,<<64320,64321>>,
       <<64323,64324>>,<<64326,64433>>,<<64467,64829>>,<<64848,64911>>,
       <<64914,64967>>,<<65008,65019>>,<<65136,65140>>,<<65142,65276>>,
       <<65296,65305>>,<<65313,65338>>,<<65345,65370>>,<<65382,65470>>,
       <<65474,65479>>,<<65482,65487>>,<<65490,65495>>,<<65498,65500>>,
       <<65536,65547>>,<<65549,65574>>,<<65576,65594>>,<<65596,65597>>,
       <<65599,65613>>,<<65616,65629>>,<<65664,65786>>,<<65799,65843>>,
       <<65856,65912>>,<<65930,65931>>,<<66176,66204>>,<<66208,66256>>,
       <<66273,66299>>,<<66304,66339>>,<<66349,66378>>,<<66384,66421>>,
       <<66432,66461>>,<<66464,66499>>,<<66504,66511>>,<<66513,66517>>,
       <<66560,66717>>,<<66720,66729>>,<<66736,66771>>,<<66776,66811>>,
       <<66816,66855>>,<<66864,66915>>,<<66928,66938>>,<<66940,66954>>,
       <<66956,66962>>,<<66964,66965>>,<<66967,66977>>,<<66979,66993>>,
       <<66995,67001>>,<<67003,67004>>,<<67072,67382>>,<<67392,67413>>,
       <<67424,67431>>,<<67456,67461>>,<<67463,67504>>,<<67506,67514>>,
       <<67584,67589>>,<<67592,67592>>,<<67594,67637>>,<<67639,67640>>,
       <<67644,67644>>,<<67647,67669>>,<<67672,67702>>,<<67705,67742>>,
       <<67751,67759>>,<<67808,67826>>,<<67828,67829>>,<<67835,67867>>,
       <<67872,67897>>,<<67968,68023>>,<<68028,68047>>,<<68050,68096>>,
       <<68112,68115>>,<<68117,68119>>,<<68121,68149>>,<<68160,68168>>,
       <<68192,68222>>,<<68224,68255>>,<<68288,68295>>,<<68297,68324>>,
       <<68331,68335>>,<<68352,68405>>,<<68416,68437>>,<<68440,68466>>,
       <<68472,68497>>,<<68521,68527>>,<<68608,68680>>,<<68736,68786>>,
       <<68800,68850>>,<<68858,68899>>,<<68912,68921>>,<<69216,69246>>,
       <<69248,69289>>,<<69296,69297>>,<<69376,69415>>,<<69424,69445>>,
       <<69457,69460>>,<<69488,69505>>,<<69552,69579>>,<<69600,69622>>,
       <<69635,69687>>,<<69714,69743>>,<<69745,69746>>,<<69749,69749>>,
       <<69763,69807>>,<<69840,69864>>,<<69872,69881>>,<<69891,69926>>,
       <<69942,69951>>,<<69956,69956>>,<<69959,69959>>,<<69968,70002>>,
       <<70006,70006>>,<<70019,70066>>,<<70081,70084>>,<<70096,70106>>,
       <<70108,70108>>,<<70113,70132>>,<<70144,70161>>,<<70163,70187>>,
       <<70272,70278>>,<<70280,70280>>,<<70282,70285>>,<<70287,70301>>,
       <<70303,70312>>,<<70320,70366>>,<<70384,70393>>,<<70405,70412>>,
       <<70415,70416>>,<<70419,70440>>,<<70442,70448>>,<<70450,70451>>,
       <<70453,70457>>,<<70461,70461>>,<<70480,70480>>,<<70493,70497>>,
       <<70656,70708>>,<<70727,70730>>,<<70736,70745>>,<<70751,70753>>,
       <<70784,70831>>,<<70852,70853>>,<<70855,70855>>,<<70864,70873>>,
       <<71040,71086>>,<<71128,71131>>,<<71168,71215>>,<<71236,71236>>,
       <<71248,71257>>,<<71296,71338>>,<<71352,71352>>,<<71360,71369>>,
       <<71424,71450>>,<<71472,71483>>,<<71488,71494>>,<<71680,71723>>,
       <<71840,71922>>,<<71935,71942>>,<<71945,71945>>,<<71948,71955>>,
       <<71957,71958>>,<<71960,71983>>,<<71999,71999>>,<<72001,72001>>,
       <<72016,72025>>,<<72096,72103>>,<<72106,72144>>,<<72161,72161>>,
       <<72163,72163>>,<<72192,72192>>,<<72203,72242>>,<<72250,72250>>,
       <<72272,72272>>,<<72284,72329>>,<<72349,72349>>,<<72368,72440>>,
       <<72704,72712>>,<<72714,72750>>,<<72768,72768>>,<<72784,72812>>,
       <<72818,72847>>,<<72960,72966>>,<<72968,72969>>,<<72971,73008>>,
       <<73030,73030>>,<<73040,73049>>,<<73056,73061>>,<<73063,73064>>,
       <<73066,73097>>,<<73112,73112>>,<<73120,73129>>,<<73440,73458>>,
       <<73648,73648>>,<<73664,73684>>,<<73728,74649>>,<<74752,74862>>,
       <<74880,75075>>,<<77712,77808>>,<<77824,78894>>,<<82944,83526>>,
       <<92160,92728>>,<<92736,92766>>,<<92768,92777>>,<<92784,92862>>,
       <<92864,92873>>,<<92880,92909>>,<<92928,92975>>,<<92992,92995>>,
       <<93008,93017>>,<<93019,93025>>,<<93027,93047>>,<<93053,93071>>,
       <<93760,93846>>,<<93952,94026>>,<<94032,94032>>,<<94099,94111>>,
       <<94176,94177>>,<<94179,94179>>,<<94208,100343>>,<<100352,101589>>,
       <<101632,101640>>,<<110576,110579>>,<<110581,110587>>,
       <<110589,110590>>,<<110592,110882>>,<<110928,110930>>,
       <<110948,110951>>,<<110960,111355>>,<<113664,113770>>,
       <<113776,113788>>,<<113792,113800>>,<<113808,113817>>,
       <<119520,119539>>,<<119648,119672>>,<<119808,119892>>,
       <<119894,119964>>,<<119966,119967>>,<<119970,119970>>,
       <<119973,119974>>,<<119977,119980>>,<<119982,119993>>,
       <<119995,119995>>,<<119997,120003>>,<<120005,120069>>,
       <<120071,120074>>,<<120077,120084>>,<<120086,120092>>,
       <<120094,120121>>,<<120123,120126>>,<<120128,120132>>,
       <<120134,120134>>,<<120138,120144>>,<<120146,120485>>,
       <<120488,120512>>,<<120514,120538>>,<<120540,120570>>,
       <<120572,120596>>,<<120598,120628>>,<<120630,120654>>,
       <<120656,120686>>,<<120688,120712>>,<<120714,120744>>,
       <<120746,120770>>,<<120772,120779>>,<<120782,120831>>,
       <<122624,122654>>,<<123136,123180>>,<<123191,123197>>,
       <<123200,123209>>,<<123214,123214>>,<<123536,123565>>,
       <<123584,123627>>,<<123632,123641>>,<<124896,124902>>,
       <<124904,124907>>,<<124909,124910>>,<<124912,124926>>,
       <<124928,125124>>,<<125127,125135>>,<<125184,125251>>,
       <<125259,125259>>,<<125264,125273>>,<<126065,126123>>,
       <<126125,126127>>,<<126129,126132>>,<<126209,126253>>,
       <<126255,126269>>,<<126464,126467>>,<<126469,126495>>,
       <<126497,126498>>,<<126500,126500>>,<<126503,126503>>,
       <<126505,126514>>,<<126516,126519>>,<<126521,126521>>,
       <<126523,126523>>,<<126530,126530>>,<<126535,126535>>,
       <<126537,126537>>,<<126539,126539>>,<<126541,126543>>,
       <<126545,126546>>,<<126548,126548>>,<<126551,126551>>,
       <<126553,126553>>,<<126555,126555>>,<<126557,126557>>,
       <<126559,126559>>,<<126561,126562>>,<<126564,126564>>,
       <<126567,126570>>,<<126572,126578>>,<<126580,126583>>,
       <<126585,126588>>,<<126590,126590>>,<<126592,126601>>,
       <<126603,126619>>,<<126625,126627>>,<<126629,126633>>,
       <<126635,126651>>,<<127232,127244>>,<<130032,130041>>,
       <<131072,173791>>,<<173824,177976>>,<<177984,178205>>,
       <<178208,183969>>,<<183984,191456>>,<<194560,195101>>,<<196608,201546>> >>

\* str.isalnum() of one character
isalnum(c) ==
    \E i \in 1..Len(AlnumRanges) :
        AlnumRanges[i][1] <= c /\ c <= AlnumRanges[i][2]

\* Whether \w of a str pattern matches the character: it is alphanumeric or "_".
WordChar(c) == c = Ch("_") \/ isalnum(c)

\* The quote characters of the item pattern.
Quotes == { Ch("\""), Ch("'") }

RECURSIVE lstrip(_)
\* str.lstrip()
lstrip(s) ==
    IF Len(s) > 0 /\ Head(s) \in WS THEN lstrip(Tail(s)) ELSE s

RECURSIVE rstrip(_)
\* str.rstrip()
rstrip(s) ==
    IF Len(s) > 0 /\ s[Len(s)] \in WS
        THEN rstrip(SubSeq(s, 1, Len(s) - 1))
        ELSE s

\* str.strip()
strip(s) == rstrip(lstrip(s))

\* len(line) - len(line.lstrip())
indent_of(line) == Len(line) - Len(lstrip(line))

\* str.startswith
startswith(s, p) == Len(s) >= Len(p) /\ SubSeq(s, 1, Len(p)) = p

\* s[n:]
DropFirst(s, n) == SubSeq(s, n + 1, Len(s))

\* `not s or s.startswith("#")` for s = line.strip(): a blank or comment line.
is_skipped(line) ==
    LET s == strip(line) IN Len(s) = 0 \/ Head(s) = Ch("#")

(***************************************************************************)
(* The regular expressions of the script                                   *)
(***************************************************************************)

KwEcosystem ==
    Str(<< "p","a","c","k","a","g","e","-","e","c","o","s","y","s","t","e","m",":" >>)
KwMaven == Str(<< "m","a","v","e","n" >>)
KwGroups == Str(<< "g","r","o","u","p","s",":" >>)
KwMavenPlugins ==
    Str(<< "m","a","v","e","n","-","p","l","u","g","i","n","s",":" >>)
KwPatterns == Str(<< "p","a","t","t","e","r","n","s",":" >>)

\* re.search(r"package-ecosystem:\s*maven\b", l): the raw line l, at any offset.
search_maven(l) ==
    \E i \in 1..Len(l) :
        LET rest == DropFirst(l, i - 1) IN
        /\ startswith(rest, KwEcosystem)
        /\ LET r == lstrip(DropFirst(rest, Len(KwEcosystem))) IN
           /\ startswith(r, KwMaven)
           /\ (Len(r) = Len(KwMaven) \/ ~ WordChar(r[Len(KwMaven) + 1]))

\* re.match(key + r"\s*$", s): s starts with the key and only whitespace follows.
match_key(key, s) ==
    /\ startswith(s, key)
    /\ Len(lstrip(DropFirst(s, Len(key)))) = 0

RECURSIVE scalar_run(_)
\* The longest prefix matching [^"'\s]* (the group of the item pattern is greedy).
scalar_run(s) ==
    IF Len(s) > 0 /\ Head(s) \notin (Quotes \cup WS)
        THEN << Head(s) >> \o scalar_run(Tail(s))
        ELSE << >>

\* re.match(r"""-\s*["']?([^"'\s]+)["']?""", s): << >> when there is no match,
\* << m.group(1) >> when there is one.
match_item(s) ==
    IF Len(s) = 0 \/ Head(s) # Ch("-") THEN << >>
    ELSE LET r == lstrip(Tail(s))
             q == IF Len(r) > 0 /\ Head(r) \in Quotes THEN Tail(r) ELSE r
             g == scalar_run(q)
         IN IF Len(g) > 0 THEN << g >> ELSE << >>

(***************************************************************************)
(* extract_maven_plugins_patterns                                          *)
(***************************************************************************)

\* stop_indent=None of find_line: no indentation is <= it.
NoStop == -1

RECURSIVE find_from_unbounded(_, _, _, _)
\* find_line without its test of stop_indent.
find_from_unbounded(lines, i, key, stop_indent) ==
    IF i > Len(lines) THEN 0
    ELSE IF is_skipped(lines[i]) THEN find_from_unbounded(lines, i + 1, key, stop_indent)
    ELSE IF match_key(key, strip(lines[i])) THEN i
    ELSE find_from_unbounded(lines, i + 1, key, stop_indent)

RECURSIVE find_from(_, _, _, _)
\* The loop of find_line from index i on.
find_from(lines, i, key, stop_indent) ==
    IF i > Len(lines) THEN 0
    ELSE IF is_skipped(lines[i]) THEN find_from(lines, i + 1, key, stop_indent)
    ELSE IF stop_indent # NoStop /\ indent_of(lines[i]) <= stop_indent THEN 0
    ELSE IF match_key(key, strip(lines[i])) THEN i
    ELSE find_from(lines, i + 1, key, stop_indent)

\* find_line(start, pattern, stop_indent): 0 is None.
find_line(lines, start, key, stop_indent) ==
    find_from(lines, start + 1, key, stop_indent)

RECURSIVE first_maven_from(_, _)
first_maven_from(lines, i) ==
    IF i > Len(lines) THEN 0
    ELSE IF search_maven(lines[i]) THEN i
    ELSE first_maven_from(lines, i + 1)

\* next((i for i, l in enumerate(lines) if re.search(...)), None)
maven_line_of(lines) == first_maven_from(lines, 1)

RECURSIVE collect_items_past_dedent(_, _, _)
\* The item loop with `continue` where the script has `break`.
collect_items_past_dedent(lines, i, patterns_indent) ==
    IF i > Len(lines) THEN << >>
    ELSE IF is_skipped(lines[i])
        THEN collect_items_past_dedent(lines, i + 1, patterns_indent)
    ELSE IF indent_of(lines[i]) <= patterns_indent
        THEN collect_items_past_dedent(lines, i + 1, patterns_indent)
    ELSE match_item(strip(lines[i]))
         \o collect_items_past_dedent(lines, i + 1, patterns_indent)

RECURSIVE collect_items(_, _, _)
\* The loop over lines[patterns_line + 1:], from index i on.
collect_items(lines, i, patterns_indent) ==
    IF i > Len(lines) THEN << >>
    ELSE IF is_skipped(lines[i]) THEN collect_items(lines, i + 1, patterns_indent)
    ELSE IF indent_of(lines[i]) <= patterns_indent THEN << >>
    ELSE match_item(strip(lines[i])) \o collect_items(lines, i + 1, patterns_indent)

\* The groups: line looked for without a stop_indent.
groups_line_of_anywhere(lines) ==
    LET m == maven_line_of(lines) IN
    IF m = 0 THEN 0 ELSE find_line(lines, m, KwGroups, NoStop)

groups_line_of(lines) ==
    LET m == maven_line_of(lines) IN
    IF m = 0 THEN 0 ELSE find_line(lines, m, KwGroups, indent_of(lines[m]))

mp_line_of(lines) ==
    LET g == groups_line_of(lines) IN
    IF g = 0 THEN 0 ELSE find_line(lines, g, KwMavenPlugins, indent_of(lines[g]))

patterns_line_of(lines) ==
    LET p == mp_line_of(lines) IN
    IF p = 0 THEN 0 ELSE find_line(lines, p, KwPatterns, indent_of(lines[p]))

extract_maven_plugins_patterns(lines) ==
    LET k == patterns_line_of(lines) IN
    IF k = 0 THEN << >> ELSE collect_items(lines, k + 1, indent_of(lines[k]))

(***************************************************************************)
(* covers_group_id: fnmatch.fnmatch(f"{group_id}:DUMMY", pattern)          *)
(***************************************************************************)

Dummy == Str(<< "D","U","M","M","Y" >>)
Colon == Str(<< ":" >>)

RECURSIVE class_end(_, _)
\* `while j < n and pat[j] != ']': j = j+1` of fnmatch.translate: the index of
\* the first "]" at or after j, Len(pat) + 1 when there is none.
class_end(pat, j) ==
    IF j > Len(pat) THEN j
    ELSE IF pat[j] = Ch("]") THEN j
    ELSE class_end(pat, j + 1)

\* For a "[" at index i: the index of the "]" closing its character class, 0
\* when the "[" is a literal one (no closing bracket).
class_close(pat, i) ==
    LET j0 == i + 1
        j1 == IF j0 <= Len(pat) /\ pat[j0] = Ch("!") THEN j0 + 1 ELSE j0
        j2 == IF j1 <= Len(pat) /\ pat[j1] = Ch("]") THEN j1 + 1 ELSE j1
        j  == class_end(pat, j2)
    IN IF j > Len(pat) THEN 0 ELSE j

RECURSIVE find_hyphen(_, _, _)
\* pat.find('-', k, j): the index of the first "-" of pat[k .. j-1], 0 when there
\* is none.
find_hyphen(pat, k, j) ==
    IF k >= j THEN 0
    ELSE IF pat[k] = Ch("-") THEN k
    ELSE find_hyphen(pat, k + 1, j)

RECURSIVE class_chunks(_, _, _, _)
\* The `while True` loop of translate and the lines after it: the chunks of
\* pat[i .. j-1] that the hyphens found from k on separate; a hyphen that ends
\* the class goes to the last chunk.
class_chunks(pat, i, k, j) ==
    LET h == find_hyphen(pat, k, j) IN
    IF h = 0 THEN << SubSeq(pat, i, j - 1) >>
    ELSE IF h + 1 = j THEN << SubSeq(pat, i, h - 1) \o Str(<< "-" >>) >>
    ELSE << SubSeq(pat, i, h - 1) >> \o class_chunks(pat, h + 1, h + 3, j)

RECURSIVE remove_empty_ranges(_, _)
\* `for k in range(len(chunks)-1, 0, -1)`: a range whose first character is
\* above its last one is taken out (k is the index of the chunk after the hyphen).
remove_empty_ranges(chunks, k) ==
    IF k < 2 THEN chunks
    ELSE LET lo == chunks[k - 1]
             hi == chunks[k]
         IN IF ord(lo[Len(lo)]) > ord(hi[1])
                THEN remove_empty_ranges(
                        SubSeq(chunks, 1, k - 2)
                            \o << SubSeq(lo, 1, Len(lo) - 1) \o Tail(hi) >>
                            \o SubSeq(chunks, k + 1, Len(chunks)),
                        k - 1)
                ELSE remove_empty_ranges(chunks, k - 1)

\* An item of the translated class: a character that stands for itself
\* (escaped where the regular expression asks for it), or the hyphen of a range.
Literal(c) == [ c |-> c, range |-> FALSE ]
RangeHyphen == [ c |-> Ch("-"), range |-> TRUE ]

\* The characters of a chunk, each standing for itself.
literals(chunk) == [ n \in 1..Len(chunk) |-> Literal(chunk[n]) ]

RECURSIVE join_chunks(_)
\* '-'.join(...) of the escaped chunks.
join_chunks(chunks) ==
    IF Len(chunks) = 0 THEN << >>
    ELSE IF Len(chunks) = 1 THEN literals(chunks[1])
    ELSE literals(chunks[1]) \o << RangeHyphen >> \o join_chunks(Tail(chunks))

\* `stuff` for the class that opens at index i and closes at index j.
class_stuff(pat, i, j) ==
    IF find_hyphen(pat, i + 1, j) = 0 THEN literals(SubSeq(pat, i + 1, j - 1))
    ELSE LET k      == IF pat[i + 1] = Ch("!") THEN i + 3 ELSE i + 2
             chunks == class_chunks(pat, i + 1, k, j)
         IN join_chunks(remove_empty_ranges(chunks, Len(chunks)))

RECURSIVE set_has(_, _, _)
\* Whether the set [...] of the regular expression whose items from p on are
\* stuff[p ..] holds character c: an item followed by the hyphen of a range and a
\* further item is the range of the code points from the one to the other.
set_has(stuff, p, c) ==
    IF p > Len(stuff) THEN FALSE
    ELSE IF p + 2 <= Len(stuff) /\ stuff[p + 1].range THEN
        \/ ord(stuff[p].c) <= ord(c) /\ ord(c) <= ord(stuff[p + 2].c)
        \/ set_has(stuff, p + 3, c)
    ELSE stuff[p].c = c \/ set_has(stuff, p + 1, c)

\* Whether character c matches the class that opens at index i and closes at
\* index j: '(?!)' for an empty stuff, '.' for the stuff '!', the set otherwise,
\* negated when the stuff starts with '!'.
class_has(pat, i, j, c) ==
    LET stuff == class_stuff(pat, i, j) IN
    IF Len(stuff) = 0 THEN FALSE
    ELSE IF stuff = << Literal(Ch("!")) >> THEN TRUE
    ELSE IF stuff[1] = Literal(Ch("!")) THEN ~ set_has(stuff, 2, c)
    ELSE set_has(stuff, 1, c)

RECURSIVE glob_at(_, _, _, _)
\* Whether pat[i..] matches name[k..] entirely (re.match of translate(pat)).
glob_at(pat, i, name, k) ==
    IF i > Len(pat) THEN k > Len(name)
    ELSE IF pat[i] = Ch("*") THEN
        \E k2 \in k..(Len(name) + 1) : glob_at(pat, i + 1, name, k2)
    ELSE IF k > Len(name) THEN FALSE
    ELSE IF pat[i] = Ch("?") THEN glob_at(pat, i + 1, name, k + 1)
    ELSE IF pat[i] = Ch("[") /\ class_close(pat, i) # 0 THEN
        LET j == class_close(pat, i) IN
        class_has(pat, i, j, name[k]) /\ glob_at(pat, j + 1, name, k + 1)
    ELSE pat[i] = name[k] /\ glob_at(pat, i + 1, name, k + 1)

\* fnmatch.fnmatch(name, pat) on a POSIX system (normcase changes nothing).
fnmatch(name, pat) == glob_at(pat, 1, name, 1)

\* The pattern matched against the groupId alone.
covers_group_id_bare(pattern, group_id) == fnmatch(group_id, pattern)

covers_group_id(pattern, group_id) ==
    fnmatch(group_id \o Colon \o Dummy, pattern)

(***************************************************************************)
(* The parsed pom.xml                                                      *)
(*                                                                         *)
(* The tree is a sequence of elements in document order (the order of      *)
(* Element.iter): element 1 is the root, tree[n].parent is the index of    *)
(* the parent of element n (0 for the root).  The index of an element is   *)
(* its id().  groupId, artifactId and version are what Element.find gives  *)
(* for that child: << >> when there is no such child (None), << t >> for   *)
(* a child whose text is t (t = << >> for a text of None or "").           *)
(***************************************************************************)

TagProject == "project"
TagPluginManagement == "pluginManagement"
TagDependencyManagement == "dependencyManagement"
TagPlugin == "plugin"
TagDependency == "dependency"

\* `x is not None and x.text`
has_text(child) == Len(child) = 1 /\ Len(child[1]) > 0

Children(tree, n) == { c \in 1..Len(tree) : tree[c].parent = n }

RECURSIVE subtree(_, _)
\* The elements Element.iter() visits from element n: n and its descendants.
subtree(tree, n) ==
    {n} \cup UNION { subtree(tree, c) : c \in Children(tree, n) }

RECURSIVE in_document_order(_)
in_document_order(S) ==
    IF S = {} THEN << >>
    ELSE LET m == CHOOSE x \in S : \A y \in S : x <= y
         IN << m >> \o in_document_order(S \ {m})

\* element.iter(tag), as the sequence of the elements it yields
iter(tree, n, tag) ==
    in_document_order({ e \in subtree(tree, n) : tree[e].tag = tag })

\* Only the plugins that are children of a pluginManagement element.
pm_plugin_ids_children_only(tree) ==
    { p \in 1..Len(tree) :
        /\ tree[p].tag = TagPlugin
        /\ tree[p].parent # 0
        /\ tree[tree[p].parent].tag = TagPluginManagement }

pm_plugin_ids(tree) ==
    UNION { Range(iter(tree, pm, TagPlugin)) :
                pm \in Range(iter(tree, 1, TagPluginManagement)) }

dm_dependency_ids(tree) ==
    UNION { Range(iter(tree, dm, TagDependency)) :
                dm \in Range(iter(tree, 1, TagDependencyManagement)) }

\* Only the dependencies that are children of a plugin element.
plugin_dependency_ids_children_only(tree) ==
    { d \in 1..Len(tree) :
        /\ tree[d].tag = TagDependency
        /\ tree[d].parent # 0
        /\ tree[tree[d].parent].tag = TagPlugin }

plugin_dependency_ids(tree) ==
    UNION { Range(iter(tree, plugin, TagDependency)) :
                plugin \in Range(iter(tree, 1, TagPlugin)) }

Unknown == Str(<< "u","n","k","n","o","w","n" >>)

artifact_coords(element) ==
    << IF has_text(element.groupId) THEN strip(element.groupId[1]) ELSE Unknown,
       IF has_text(element.artifactId) THEN strip(element.artifactId[1]) ELSE Unknown >>

\* The alias of line 62.
plugin_coords(element) == artifact_coords(element)

(***************************************************************************)
(* sorted() of a set of str: by code point, character by character         *)
(***************************************************************************)

RECURSIVE str_less(_, _)
\* s < t for str
str_less(s, t) ==
    IF Len(t) = 0 THEN FALSE
    ELSE IF Len(s) = 0 THEN TRUE
    ELSE IF Head(s) # Head(t) THEN ord(Head(s)) < ord(Head(t))
    ELSE str_less(Tail(s), Tail(t))

RECURSIVE sorted(_)
sorted(S) ==
    IF S = {} THEN << >>
    ELSE LET m == CHOOSE x \in S : \A y \in S \ {x} : str_less(x, y)
         IN << m >> \o sorted(S \ {m})

(***************************************************************************)
(* main                                                                    *)
(***************************************************************************)

ErrPlugin(g, a, v) == [ rule |-> "A", groupId |-> g, artifactId |-> a, version |-> v ]
ErrDependency(g, a, v) == [ rule |-> "B", groupId |-> g, artifactId |-> a, version |-> v ]
ErrNoPatterns == [ rule |-> "missing" ]
ErrNotCovered(gid) == [ rule |-> "C", groupId |-> gid ]
ErrStale(pattern) == [ rule |-> "D", pattern |-> pattern ]

RECURSIVE check_plugins(_, _, _)
\* Check 1, the loop of lines 143-152 over the plugins still to visit.
check_plugins(tree, plugins, pm) ==
    IF Len(plugins) = 0 THEN << >>
    ELSE LET plugin == Head(plugins)
             rest   == check_plugins(tree, Tail(plugins), pm)
             coords == plugin_coords(tree[plugin])
         IN IF plugin \in pm THEN rest
            ELSE IF has_text(tree[plugin].version)
                THEN << ErrPlugin(coords[1], coords[2], strip(tree[plugin].version[1])) >>
                     \o rest
            ELSE rest

RECURSIVE check_dependencies(_, _, _, _)
\* Check 2, the loop of lines 157-166 over the dependencies still to visit.
check_dependencies(tree, deps, dm, plugin_dep) ==
    IF Len(deps) = 0 THEN << >>
    ELSE LET dep    == Head(deps)
             rest   == check_dependencies(tree, Tail(deps), dm, plugin_dep)
             coords == artifact_coords(tree[dep])
         IN IF dep \in dm \/ dep \in plugin_dep THEN rest
            ELSE IF has_text(tree[dep].version)
                THEN << ErrDependency(coords[1], coords[2], strip(tree[dep].version[1])) >>
                     \o rest
            ELSE rest

\* The loop of lines 169-175.
collect_group_ids(tree, pm) ==
    { strip(tree[plugin].groupId[1]) :
        plugin \in { p \in Range(iter(tree, 1, TagPlugin)) :
                        p \in pm /\ has_text(tree[p].groupId) } }

RECURSIVE check_coverage_every(_, _)
\* The coverage loop with all() where the script has any().
check_coverage_every(gids, pats) ==
    IF Len(gids) = 0 THEN << >>
    ELSE LET gid  == Head(gids)
             rest == check_coverage_every(Tail(gids), pats)
         IN IF ~ \A i \in 1..Len(pats) : covers_group_id(pats[i], gid)
                THEN << ErrNotCovered(gid) >> \o rest
                ELSE rest

RECURSIVE check_coverage(_, _)
\* The loop of lines 185-190 over the sorted groupIds still to visit.
check_coverage(gids, pats) ==
    IF Len(gids) = 0 THEN << >>
    ELSE LET gid  == Head(gids)
             rest == check_coverage(Tail(gids), pats)
         IN IF ~ \E i \in 1..Len(pats) : covers_group_id(pats[i], gid)
                THEN << ErrNotCovered(gid) >> \o rest
                ELSE rest

RECURSIVE check_stale_distinct(_, _)
\* The stale loop reporting a pattern string once, however often it occurs.
check_stale_distinct(pats, gids) ==
    IF Len(pats) = 0 THEN << >>
    ELSE LET pattern == Head(pats)
             rest    == check_stale_distinct(Tail(pats), gids)
         IN IF /\ ~ \E gid \in gids : covers_group_id(pattern, gid)
               /\ ~ \E i \in 2..Len(pats) : pats[i] = pattern
                THEN << ErrStale(pattern) >> \o rest
                ELSE rest

RECURSIVE check_stale(_, _)
\* The loop of lines 193-198 over the patterns still to visit.
check_stale(pats, gids) ==
    IF Len(pats) = 0 THEN << >>
    ELSE LET pattern == Head(pats)
             rest    == check_stale(Tail(pats), gids)
         IN IF ~ \E gid \in gids : covers_group_id(pattern, gid)
                THEN << ErrStale(pattern) >> \o rest
                ELSE rest

VARIABLES
    root,           \* the parsed pom.xml
    lines,          \* dependabot_text.splitlines()
    pc,             \* where main is
    errors,         \* main's list of error messages
    pm_ids,         \* main's pm_ids
    pm_group_ids,   \* main's pm_group_ids
    patterns,       \* main's patterns
    arg,            \* the arguments of a function called on its own
    ret             \* what that call returned

vars == << root, lines, pc, errors, pm_ids, pm_group_ids, patterns, arg, ret >>

\* Lines 141-152.
CheckPluginVersions ==
    /\ pc = "check1"
    /\ pm_ids' = pm_plugin_ids(root)
    /\ errors' = errors \o check_plugins(root, iter(root, 1, TagPlugin), pm_plugin_ids(root))
    /\ pc' = "check2"
    /\ UNCHANGED << arg, ret, root, lines, pm_group_ids, patterns >>

\* Lines 154-166.
CheckDependencyVersions ==
    /\ pc = "check2"
    /\ errors' = errors \o check_dependencies(root, iter(root, 1, TagDependency),
                                dm_dependency_ids(root), plugin_dependency_ids(root))
    /\ pc' = "collect"
    /\ UNCHANGED << arg, ret, root, lines, pm_ids, pm_group_ids, patterns >>

\* Lines 168-175.
CollectGroupIds ==
    /\ pc = "collect"
    /\ pm_group_ids' = collect_group_ids(root, pm_ids)
    /\ pc' = "extract"
    /\ UNCHANGED << arg, ret, root, lines, errors, pm_ids, patterns >>

\* Line 178.
ExtractPatterns ==
    /\ pc = "extract"
    /\ patterns' = extract_maven_plugins_patterns(lines)
    /\ pc' = "compare"
    /\ UNCHANGED << arg, ret, root, lines, errors, pm_ids, pm_group_ids >>

\* Lines 179-182: `if not patterns`.
ReportNoPatterns ==
    /\ pc = "compare"
    /\ Len(patterns) = 0
    /\ errors' = Append(errors, ErrNoPatterns)
    /\ pc' = "done"
    /\ UNCHANGED << arg, ret, root, lines, pm_ids, pm_group_ids, patterns >>

\* Lines 183-190.
CheckCoverage ==
    /\ pc = "compare"
    /\ Len(patterns) > 0
    /\ errors' = errors \o check_coverage(sorted(pm_group_ids), patterns)
    /\ pc' = "stale"
    /\ UNCHANGED << arg, ret, root, lines, pm_ids, pm_group_ids, patterns >>

\* Lines 192-198.
CheckStalePatterns ==
    /\ pc = "stale"
    /\ errors' = errors \o check_stale(patterns, pm_group_ids)
    /\ pc' = "done"
    /\ UNCHANGED << arg, ret, root, lines, pm_ids, pm_group_ids, patterns >>

Next ==
    \/ CheckPluginVersions
    \/ CheckDependencyVersions
    \/ CollectGroupIds
    \/ ExtractPatterns
    \/ ReportNoPatterns
    \/ CheckCoverage
    \/ CheckStalePatterns

(***************************************************************************)
(* The inputs of the model                                                 *)
(***************************************************************************)

\* The most elements a pom.xml of the model holds (the root included).
MaxNodes == 4
\* The most lines that follow the marker lines in a dependabot.yml of the model.
MaxItems == 3

Sp(n) == [ i \in 1..n |-> Ch(" ") ]

\* The lines of a dependabot.yml of the model.
LineUpdates  == Str(<< "u","p","d","a","t","e","s",":" >>)
LineMaven    == Sp(2) \o Str(<< "-"," " >>) \o KwEcosystem \o Str(<< " " >>) \o KwMaven
LineNpm      == Sp(2) \o Str(<< "-"," " >>) \o KwEcosystem \o Str(<< " ","n","p","m" >>)
LineGroups   == Sp(4) \o KwGroups
LineMP       == Sp(6) \o KwMavenPlugins
LinePatterns == Sp(8) \o KwPatterns
ItemA        == Sp(10) \o Str(<< "-"," ","\"","a",":","*","\"" >>)
ItemZ        == Sp(10) \o Str(<< "-"," ","z",":","*" >>)
ItemB8       == Sp(8) \o Str(<< "-"," ","b",":","*" >>)
ItemC6       == Sp(6) \o Str(<< "-"," ","c",":","*" >>)
Comment0     == Str(<< "#"," ","c" >>)

\* The marker lines in their order, with the start of another ecosystem's block
\* between the maven line and the groups line.
MarkerLines == << LineMaven, LineNpm, LineGroups, LineMP, LinePatterns >>

\* The lines that may follow the marker lines: items deeper than the patterns
\* marker, one at its indentation, one indented less, and a comment.
TailLines == { ItemA, ItemZ, ItemB8, ItemC6, Comment0 }

RECURSIVE SeqsUpTo(_, _)
\* The sequences over A of length at most n.
SeqsUpTo(A, n) ==
    IF n = 0 THEN { << >> }
    ELSE LET S == SeqsUpTo(A, n - 1)
         IN S \cup { Append(s, a) : s \in { t \in S : Len(t) = n - 1 }, a \in A }

RECURSIVE Kept(_, _)
\* The lines of s whose index is in keep, in their order.
Kept(s, keep) ==
    IF Len(s) = 0 THEN << >>
    ELSE Kept(SubSeq(s, 1, Len(s) - 1), keep)
         \o (IF Len(s) \in keep THEN << s[Len(s)] >> ELSE << >>)

\* Any of the marker lines, in their order, then at most MaxItems further lines.
Texts ==
    { Kept(MarkerLines, keep) \o tail :
        keep \in SUBSET (1..Len(MarkerLines)), tail \in SeqsUpTo(TailLines, MaxItems) }

\* All four markers, and the patterns a:* and z:*.
FullText == << LineMaven, LineGroups, LineMP, LinePatterns, ItemA, ItemZ >>

None == << >>
Some(t) == << t >>

Element(tag, parent, g, a, v) ==
    [ tag |-> tag, parent |-> parent, groupId |-> g, artifactId |-> a, version |-> v ]

\* What a plugin element of the model declares: groupId, artifactId, version
\* (a text laid out on lines of its own starts and ends with a newline).
PluginChildren ==
    { << Some(Str(<< "\n"," ","a","\n" >>)), Some(Str(<< "x" >>)), Some(Str(<< "\n"," ","1" >>)) >>,
      << Some(Str(<< "b" >>)), Some(Str(<< "y" >>)), None >>,
      << Some(Str(<< "\n"," " >>)), None, Some(Str(<< " " >>)) >> }

\* What a dependency element of the model declares.
DependencyChildren ==
    { << Some(Str(<< "a" >>)), Some(Str(<< "x" >>)), Some(Str(<< "1" >>)) >>,
      << Some(Str(<< "b" >>)), Some(Str(<< "y" >>)), None >>,
      << None, Some(<< >>), Some(<< >>) >> }

\* The elements that can hang under element `parent`.
ElementsUnder(parent) ==
    { Element(TagPluginManagement, parent, None, None, None),
      Element(TagDependencyManagement, parent, None, None, None) }
    \cup { Element(TagPlugin, parent, c[1], c[2], c[3]) : c \in PluginChildren }
    \cup { Element(TagDependency, parent, c[1], c[2], c[3]) : c \in DependencyChildren }

RECURSIVE ancestors_or_self(_, _)
ancestors_or_self(tree, n) ==
    IF n = 0 THEN {} ELSE {n} \cup ancestors_or_self(tree, tree[n].parent)

RECURSIVE Trees(_)
\* The documents of n elements, numbered in document order: the parent of the
\* next element is the last element or one of its ancestors.
Trees(n) ==
    IF n = 1 THEN { << Element(TagProject, 0, None, None, None) >> }
    ELSE { Append(t, e) :
            t \in Trees(n - 1),
            e \in UNION { ElementsUnder(p) : p \in 1..(n - 1) } }

WellNumbered(tree) ==
    \A n \in 2..Len(tree) : tree[n].parent \in ancestors_or_self(tree, n - 1)

\* The documents of n elements.
Documents(n) == { t \in Trees(n) : WellNumbered(t) }

\* One managed plugin of groupId a; the same with a managed plugin of groupId b.
PomA ==
    << Element(TagProject, 0, None, None, None),
       Element(TagPluginManagement, 1, None, None, None),
       Element(TagPlugin, 2, Some(Str(<< "a" >>)), Some(Str(<< "x" >>)), Some(Str(<< "1" >>))) >>
PomAB ==
    Append(PomA, Element(TagPlugin, 2, Some(Str(<< "b" >>)), Some(Str(<< "y" >>)), Some(Str(<< "2" >>))))

\* The same with a versioned plugin and a versioned dependency outside every
\* management section: a document with one rule-A and one rule-B violation.
PomStray ==
    PomAB \o
    << Element(TagPlugin, 1, Some(Str(<< "c" >>)), Some(Str(<< "p" >>)), Some(Str(<< "\n"," ","3","\n" >>))),
       Element(TagDependency, 1, Some(Str(<< "d" >>)), Some(Str(<< "q" >>)), Some(Str(<< "4" >>))) >>

Init ==
    /\ \/ (\E n \in 1..MaxNodes : root \in Documents(n)) /\ lines = FullText
       \/ root \in { PomA, PomStray } /\ lines \in Texts
    /\ pc = "check1"
    /\ errors = << >>
    /\ pm_ids = {}
    /\ pm_group_ids = {}
    /\ patterns = << >>
    /\ arg = << >>
    /\ ret = << >>

Spec == Init /\ [][Next]_vars

(***************************************************************************)
(* extract_maven_plugins_patterns on a text and on the same text with one  *)
(* blank or comment line inserted                                          *)
(***************************************************************************)

LineCommentDeep  == Sp(12) \o Str(<< "#"," ","c" >>)
LineCommentMaven == Sp(4) \o Str(<< "#"," " >>) \o KwEcosystem \o Str(<< " " >>) \o KwMaven

\* Blank lines and comment lines.
TransparentLines == { << >>, Sp(3), LineCommentDeep, Comment0, LineCommentMaven }

\* The top-level key, another ecosystem's block, then the maven block.
MarkerLinesUnderUpdates ==
    << LineUpdates, LineNpm, LineMaven, LineGroups, LineMP, LinePatterns >>

TextsUnderUpdates ==
    { Kept(MarkerLinesUnderUpdates, {1} \cup keep) \o tail :
        keep \in SUBSET (2..Len(MarkerLinesUnderUpdates)),
        tail \in SeqsUpTo(TailLines, MaxItems) }

\* The text with `line` inserted after its first `at` lines.
Inserted(text, at, line) ==
    SubSeq(text, 1, at) \o << line >> \o SubSeq(text, at + 1, Len(text))

InitInsert ==
    /\ lines \in TextsUnderUpdates
    /\ \E at \in 0..Len(lines), line \in TransparentLines :
            arg = [ at |-> at, line |-> line ]
    /\ pc = "call"
    /\ ret = << >>
    /\ root = << >> /\ errors = << >> /\ pm_ids = {} /\ pm_group_ids = {}
    /\ patterns = << >>

CallExtractTwice ==
    /\ pc = "call"
    /\ ret' = [ before |-> extract_maven_plugins_patterns(lines),
                after  |-> extract_maven_plugins_patterns(
                                Inserted(lines, arg.at, arg.line)) ]
    /\ pc' = "return"
    /\ UNCHANGED << arg, root, lines, errors, pm_ids, pm_group_ids, patterns >>

SpecInsert == InitInsert /\ [][CallExtractTwice]_vars

(***************************************************************************)
(* artifact_coords on one element                                          *)
(***************************************************************************)

\* What Element.find gives for groupId or artifactId, in the model (the last
\* text is U+3000 and U+00A0, two whitespace characters).
ChildTexts ==
    { None, Some(<< >>), Some(Str(<< " " >>)), Some(Str(<< "\t"," " >>)), Some(Str(<< "a" >>)),
      Some(Str(<< " ","a" >>)), Some(Str(<< "a"," " >>)), Some(Str(<< " ","a"," ","b","\t" >>)),
      Some(Str(<< "o","r","g",".","x" >>)), Some(Str(<< "\n"," "," " >>)),
      Some(Str(<< "\n"," ","o","r","g",".","X","\r","\n" >>)),
      Some(<< 12288, 160 >>) }

InitCoords ==
    /\ \E g \in ChildTexts, a \in ChildTexts :
            arg = Element(TagPlugin, 0, g, a, None)
    /\ pc = "call"
    /\ ret = << >>
    /\ root = << >> /\ lines = << >> /\ errors = << >> /\ pm_ids = {}
    /\ pm_group_ids = {} /\ patterns = << >>

CallArtifactCoords ==
    /\ pc = "call"
    /\ ret' = artifact_coords(arg)
    /\ pc' = "return"
    /\ UNCHANGED << arg, root, lines, errors, pm_ids, pm_group_ids, patterns >>

SpecCoords == InitCoords /\ [][CallArtifactCoords]_vars

(***************************************************************************)
(* covers_group_id on two patterns G:S1 and G:S2 and one groupId           *)
(***************************************************************************)

\* The longest identifier part G of a pattern of the model.
MaxGlobLen == 2

GlobChars == { Ch("a"), Ch("*"), Ch("?"), Ch("["), Ch("]"), Ch("-") }
Suffixes ==
    { Str(<< "*" >>), Dummy, Str(<< "x" >>), Str(<< "D", "*" >>), Str(<< "]", "*" >>),
      Str(<< "-", "b", "]", "*" >>) }
GroupIds == { Str(<< "a" >>), Str(<< "b" >>), Str(<< "a", "b" >>), Str(<< "B" >>), Str(<< "a", "-" >>) }

InitCovers ==
    /\ \E g \in SeqsUpTo(GlobChars, MaxGlobLen), s1 \in Suffixes, s2 \in Suffixes,
          id \in GroupIds :
            arg = [ g |-> g, s1 |-> s1, s2 |-> s2, group_id |-> id ]
    /\ pc = "call"
    /\ ret = << >>
    /\ root = << >> /\ lines = << >> /\ errors = << >> /\ pm_ids = {}
    /\ pm_group_ids = {} /\ patterns = << >>

CallCoversGroupId ==
    /\ pc = "call"
    /\ ret' = << covers_group_id(arg.g \o Colon \o arg.s1, arg.group_id),
                 covers_group_id(arg.g \o Colon \o arg.s2, arg.group_id) >>
    /\ pc' = "return"
    /\ UNCHANGED << arg, root, lines, errors, pm_ids, pm_group_ids, patterns >>

SpecCovers == InitCovers /\ [][CallCoversGroupId]_vars

(***************************************************************************)
(* What the rules are said to report, stated on the document itself        *)
(***************************************************************************)

\* Element n lies inside (at any depth below) an element of that tag.
Inside(tree, n, tag) ==
    \E a \in ancestors_or_self(tree, tree[n].parent) : tree[a].tag = tag

\* The element carries a version child whose text is not empty.
CarriesVersion(e) == e.version # None /\ e.version[1] # << >>

\* The errors of one rule, in the order main reported them.
ErrorsOfRule(r) == SelectSeq(errors, LAMBDA e : e.rule = r)

\* How many errors of rule r satisfy Names.
CountErrors(r, Names(_)) ==
    Cardinality({ i \in 1..Len(errors) : errors[i].rule = r /\ Names(errors[i]) })

\* The plugins outside pluginManagement that carry a non-empty version.
StrayPlugins ==
    { n \in 1..Len(root) :
        /\ root[n].tag = TagPlugin
        /\ ~ Inside(root, n, TagPluginManagement)
        /\ CarriesVersion(root[n]) }

\* The dependencies outside dependencyManagement and outside every plugin that
\* carry a non-empty version.
StrayDependencies ==
    { n \in 1..Len(root) :
        /\ root[n].tag = TagDependency
        /\ ~ Inside(root, n, TagDependencyManagement)
        /\ ~ Inside(root, n, TagPlugin)
        /\ CarriesVersion(root[n]) }

\* One error of `rule` per element of S, in document order, naming the element's
\* coordinates (as artifact_coords gives them) and its trimmed version text.
ExpectedVersionErrors(rule, S) ==
    LET order == in_document_order(S) IN
    [ i \in 1..Len(order) |->
        [ rule |-> rule,
          groupId |-> artifact_coords(root[order[i]])[1],
          artifactId |-> artifact_coords(root[order[i]])[2],
          version |-> strip(root[order[i]].version[1]) ] ]

\* C1: once check 1 has run, the 'defined outside <pluginManagement>' errors are,
\* one for one and in document order, the plugins that lie inside no
\* pluginManagement element and carry a non-empty version; a plugin inside
\* pluginManagement yields none, with or without a version.
C1_RuleA ==
    pc # "check1" => ErrorsOfRule("A") = ExpectedVersionErrors("A", StrayPlugins)

\* A run that ended with a versioned plugin inside pluginManagement and a
\* versioned plugin outside it, and one error of rule A.
C1_Witness ==
    /\ pc = "done"
    /\ \E n \in 1..Len(root) :
            /\ root[n].tag = TagPlugin
            /\ Inside(root, n, TagPluginManagement)
            /\ CarriesVersion(root[n])
    /\ StrayPlugins # {}
    /\ Len(ErrorsOfRule("A")) = 1

\* C2: once check 2 has run, the 'defined outside <dependencyManagement>' errors
\* are, one for one and in document order, the dependencies that carry a
\* non-empty version and lie neither inside a dependencyManagement element nor
\* inside a plugin element; a dependency inside a plugin yields none.
C2_RuleB ==
    pc \notin { "check1", "check2" } =>
        ErrorsOfRule("B") = ExpectedVersionErrors("B", StrayDependencies)

\* A run that ended with a versioned dependency inside a plugin that is outside
\* dependencyManagement, a stray versioned dependency, and one error of rule B.
C2_Witness ==
    /\ pc = "done"
    /\ \E n \in 1..Len(root) :
            /\ root[n].tag = TagDependency
            /\ Inside(root, n, TagPlugin)
            /\ ~ Inside(root, n, TagDependencyManagement)
            /\ CarriesVersion(root[n])
    /\ StrayDependencies # {}
    /\ Len(ErrorsOfRule("B")) = 1

\* The distinct groupIds of the plugins inside pluginManagement.
ManagedGroupIds ==
    { strip(root[n].groupId[1]) :
        n \in { m \in 1..Len(root) :
                    /\ root[m].tag = TagPlugin
                    /\ Inside(root, m, TagPluginManagement)
                    /\ root[m].groupId # None
                    /\ root[m].groupId[1] # << >> } }

\* Some pattern of the extracted list covers the groupId.
Covered(gid) == \E i \in 1..Len(patterns) : covers_group_id(patterns[i], gid)

\* The pattern covers no managed groupId.
Stale(pattern) == \A gid \in ManagedGroupIds : ~ covers_group_id(pattern, gid)

\* How often the pattern string occurs in the extracted list.
Occurrences(pattern) ==
    Cardinality({ i \in 1..Len(patterns) : patterns[i] = pattern })

\* C3: when the extracted pattern list is not empty, each distinct managed
\* groupId covered by no pattern has exactly one 'not covered' error, a covered
\* one has none, and no other groupId is reported.
C3_RuleC ==
    (pc = "done" /\ Len(patterns) > 0) =>
        /\ \A gid \in ManagedGroupIds :
                CountErrors("C", LAMBDA e : e.groupId = gid)
                    = IF Covered(gid) THEN 0 ELSE 1
        /\ \A i \in 1..Len(errors) :
                errors[i].rule = "C" => errors[i].groupId \in ManagedGroupIds

\* A run that ended with two managed plugins of one uncovered groupId and one
\* error of rule C.
C3_Witness ==
    /\ pc = "done"
    /\ Len(patterns) > 0
    /\ \E m, n \in 1..Len(root) :
            /\ m # n
            /\ root[m].tag = TagPlugin /\ root[n].tag = TagPlugin
            /\ Inside(root, m, TagPluginManagement)
            /\ Inside(root, n, TagPluginManagement)
            /\ root[m].groupId = root[n].groupId
            /\ root[m].groupId = Some(Str(<< "b" >>))
            /\ ~ Covered(Str(<< "b" >>))
    /\ Len(ErrorsOfRule("C")) = 1

\* C4 as claimed: when the extracted pattern list is not empty, a pattern that
\* covers no managed groupId has exactly one 'does not match' error and a pattern
\* that covers one has none, also when the list holds a pattern string twice.
C4_Original ==
    (pc = "done" /\ Len(patterns) > 0) =>
        \A i \in 1..Len(patterns) :
            CountErrors("D", LAMBDA e : e.pattern = patterns[i])
                = IF Stale(patterns[i]) THEN 1 ELSE 0

\* C4 as amended: when the extracted pattern list is not empty, the 'does not
\* match' errors are, one for one and in list order, the entries of the list
\* that cover no managed groupId: a stale pattern string that occurs k times in
\* the list is reported k times, a pattern that covers a managed groupId never.
C4_RuleD ==
    (pc = "done" /\ Len(patterns) > 0) =>
        /\ ErrorsOfRule("D")
            = [ i \in 1..Len(SelectSeq(patterns, Stale)) |->
                    ErrStale(SelectSeq(patterns, Stale)[i]) ]
        /\ \A i \in 1..Len(patterns) :
                CountErrors("D", LAMBDA e : e.pattern = patterns[i])
                    = IF Stale(patterns[i]) THEN Occurrences(patterns[i]) ELSE 0

\* A run that ended with a stale pattern string twice in the list, reported
\* twice, and a pattern that covers a managed groupId, not reported.
C4_Witness ==
    /\ pc = "done"
    /\ \E i, j \in 1..Len(patterns) :
            /\ Occurrences(patterns[i]) = 2
            /\ Stale(patterns[i])
            /\ ~ Stale(patterns[j])
    /\ Len(ErrorsOfRule("D")) = 2

(***************************************************************************)
(* Blocks of the configuration text, stated on the text itself             *)
(***************************************************************************)

\* Line i is neither blank nor a comment.
Significant(text, i) ==
    LET s == strip(text[i]) IN s # << >> /\ s[1] # Ch("#")

Least(S) == CHOOSE x \in S : \A y \in S : x <= y

\* The line that ends the block of line `start`: the first later significant
\* line indented no deeper than `start`, Len(text) + 1 when there is none.
BlockEnd(text, start) ==
    LET ends == { j \in (start + 1)..Len(text) :
                    /\ Significant(text, j)
                    /\ indent_of(text[j]) <= indent_of(text[start]) }
    IN IF ends = {} THEN Len(text) + 1 ELSE Least(ends)

\* The significant lines of the block of line `start`.
Block(text, start) ==
    { i \in (start + 1)..(BlockEnd(text, start) - 1) : Significant(text, i) }

\* The first line of the block of `start` that is the key, 0 when none is.
ChildMarker(text, start, key) ==
    LET found == { i \in Block(text, start) : match_key(key, strip(text[i])) }
    IN IF found = {} THEN 0 ELSE Least(found)

\* The first maven ecosystem-declaration line, 0 when there is none.
EcosystemMarker(text) ==
    LET found == { i \in 1..Len(text) : search_maven(text[i]) }
    IN IF found = {} THEN 0 ELSE Least(found)

GroupsMarker(text) ==
    LET m == EcosystemMarker(text) IN
    IF m = 0 THEN 0 ELSE ChildMarker(text, m, KwGroups)

MavenPluginsMarker(text) ==
    LET g == GroupsMarker(text) IN
    IF g = 0 THEN 0 ELSE ChildMarker(text, g, KwMavenPlugins)

PatternsMarker(text) ==
    LET p == MavenPluginsMarker(text) IN
    IF p = 0 THEN 0 ELSE ChildMarker(text, p, KwPatterns)

\* All four markers of the chain are located.
ChainLocated(text) == PatternsMarker(text) # 0

\* The lines of the block of line k that hold a list item.
ItemLines(text, k) ==
    { i \in Block(text, k) : match_item(strip(text[i])) # << >> }

\* The items of the block of line k, in source order.
ItemsOfBlock(text, k) ==
    LET order == in_document_order(ItemLines(text, k)) IN
    [ i \in 1..Len(order) |-> match_item(strip(text[order[i]]))[1] ]

\* How many 'could not find patterns' errors main reported.
MissingErrors == CountErrors("missing", LAMBDA e : TRUE)

\* C5 as claimed: the 'could not find patterns' error is reported only when some
\* marker of the chain is not located; located markers followed by no item are
\* not reported as a missing block.
C5_Original ==
    (pc = "done" /\ MissingErrors > 0) => ~ ChainLocated(lines)

\* C5 as amended: the 'could not find patterns' error is reported, once, exactly
\* when the extracted list is empty: when some marker of the chain is not
\* located, and also when all four are located and no item follows in the
\* block of the patterns: marker; the two cases get the same error.
C5_NoPatterns ==
    pc = "done" =>
        LET k == PatternsMarker(lines) IN
        MissingErrors = IF k # 0 /\ ItemLines(lines, k) # {} THEN 0 ELSE 1

\* A run that ended with all four markers located, no item after them, and the
\* 'could not find patterns' error reported.
C5_Witness ==
    /\ pc = "done"
    /\ ChainLocated(lines)
    /\ ItemLines(lines, PatternsMarker(lines)) = {}
    /\ MissingErrors = 1

\* The block of the first maven line holds no groups: line.
NoGroupsInMavenBlock(text) ==
    /\ EcosystemMarker(text) # 0
    /\ \A i \in Block(text, EcosystemMarker(text)) :
            ~ match_key(KwGroups, strip(text[i]))

\* A groups: / maven-plugins: / patterns: chain with an item, after line `from`.
ChainAfter(text, from) ==
    \E g, p, k, i \in (from + 1)..Len(text) :
        /\ g < p /\ p < k /\ k < i
        /\ match_key(KwGroups, strip(text[g]))
        /\ match_key(KwMavenPlugins, strip(text[p]))
        /\ match_key(KwPatterns, strip(text[k]))
        /\ match_item(strip(text[i])) # << >>

\* C6: when the block of the first maven ecosystem line holds no groups: line,
\* main reports exactly one 'could not find patterns' error and no error of rule
\* C or D, whatever chain follows in another block, and the errors of rules A
\* and B are those the document alone gives.
C6_NoGroupsInBlock ==
    (pc = "done" /\ NoGroupsInMavenBlock(lines)) =>
        /\ MissingErrors = 1
        /\ Len(ErrorsOfRule("C")) = 0
        /\ Len(ErrorsOfRule("D")) = 0
        /\ ErrorsOfRule("A") = ExpectedVersionErrors("A", StrayPlugins)
        /\ ErrorsOfRule("B") = ExpectedVersionErrors("B", StrayDependencies)
        /\ Len(errors) = Len(ErrorsOfRule("A")) + Len(ErrorsOfRule("B")) + 1

\* A run that ended with a maven block without groups: that another ecosystem's
\* line ends, a whole chain with an item in that later block, a document with a
\* stray versioned plugin and a stray versioned dependency, and three errors:
\* the rule-A one, the rule-B one and 'could not find patterns'.
C6_Witness ==
    /\ pc = "done"
    /\ NoGroupsInMavenBlock(lines)
    /\ BlockEnd(lines, EcosystemMarker(lines)) <= Len(lines)
    /\ ChainAfter(lines, BlockEnd(lines, EcosystemMarker(lines)))
    /\ StrayPlugins # {} /\ StrayDependencies # {}
    /\ Len(ErrorsOfRule("A")) = 1
    /\ Len(ErrorsOfRule("B")) = 1
    /\ MissingErrors = 1
    /\ Len(errors) = 3

\* C10: when the patterns: marker is found, the returned patterns are, in source
\* order, the items of the lines between the marker and the first significant
\* line indented no deeper than the marker; each comes from a line indented
\* deeper than the marker, and no item on or after that line is returned.
C10_DedentStops ==
    pc = "compare" =>
        LET k == patterns_line_of(lines) IN
        k # 0 =>
            /\ patterns = ItemsOfBlock(lines, k)
            /\ \A i \in ItemLines(lines, k) :
                    /\ indent_of(lines[i]) > indent_of(lines[k])
                    /\ i < BlockEnd(lines, k)

\* The extraction returned one item, a line dedented to the marker's
\* indentation ended the block, and a deeper item follows that line.
C10_Witness ==
    /\ pc = "compare"
    /\ patterns_line_of(lines) # 0
    /\ Len(patterns) = 1
    /\ LET k == patterns_line_of(lines)
           e == BlockEnd(lines, k)
       IN /\ e < Len(lines)
          /\ indent_of(lines[e]) = indent_of(lines[k])
          /\ \E i \in (e + 1)..Len(lines) :
                /\ indent_of(lines[i]) > indent_of(lines[k])
                /\ match_item(strip(lines[i])) # << >>

(***************************************************************************)
(* Claims about the functions called on their own                          *)
(***************************************************************************)

\* The inserted line lies inside the block of an earlier line.
InsertedInsideBlock ==
    \E start \in 1..arg.at : BlockEnd(lines, start) > arg.at

\* C7: a blank or comment line inserted anywhere inside a block leaves the
\* pattern list extract_maven_plugins_patterns returns unchanged.
C7_Transparent ==
    (pc = "return" /\ InsertedInsideBlock) => ret.after = ret.before

\* What the fallback rule gives for one child: its trimmed text when the child
\* is there and the trimmed text is not empty, "unknown" otherwise.
CoordinateOf(child) ==
    IF child # None /\ strip(child[1]) # << >> THEN strip(child[1]) ELSE Unknown

\* C8: artifact_coords returns, for groupId and for artifactId, the trimmed text
\* when the child is present and its text is not empty after trimming, and
\* "unknown" when the child is absent or its text is empty after trimming; it
\* never returns an empty string.
C8_Fallback ==
    pc = "return" =>
        /\ ret[1] = CoordinateOf(arg.groupId)
        /\ ret[2] = CoordinateOf(arg.artifactId)
        /\ ret[1] # << >> /\ ret[2] # << >>

\* C9 as claimed: for a pattern G:S, covers_group_id says whether G matches the
\* groupId, whatever the suffix S: two patterns with the same G and different
\* suffixes give the same result.
C9_Original ==
    pc = "return" =>
        /\ ret[1] = fnmatch(arg.group_id, arg.g)
        /\ ret[1] = ret[2]

\* G holds no "[" (a "[" in G can open a character class that takes in the ":").
BracketFree(g) == \A i \in 1..Len(g) : g[i] # Ch("[")

\* C9 as amended: for a pattern G:S whose G holds no "[" and a groupId without
\* ":", covers_group_id is true exactly when G matches the groupId and S matches
\* "DUMMY": the result depends on the suffix, and two patterns with the same G
\* agree when both suffixes match "DUMMY" (as "*" does).
C9_Covers ==
    (pc = "return" /\ BracketFree(arg.g)) =>
        /\ ret[1] = (fnmatch(arg.group_id, arg.g) /\ fnmatch(Dummy, arg.s1))
        /\ ret[2] = (fnmatch(arg.group_id, arg.g) /\ fnmatch(Dummy, arg.s2))

\* Two patterns with the same G, one covering the groupId and one not.
C9_Witness ==
    /\ pc = "return"
    /\ BracketFree(arg.g)
    /\ fnmatch(arg.group_id, arg.g)
    /\ ret[1] = TRUE
    /\ ret[2] = FALSE

====
